---- MODULE Spec2Model ----
(***************************************************************************)
(* TechCode: the edit session controller with its version history          *)
(* (src/components/LoadingOverlay.tsx, App, lines 158-388) and the          *)
(* generation client it calls (src/services/geminiService.ts).              *)
(*                                                                         *)
(* Text is a sequence of one-character strings; the four characters of     *)
(* the word html are one element, "html", and the backquote character is   *)
(* the element "bq".  A nullable object is a sequence of length 0 (null)   *)
(* or 1.  historyIndex is 0-based as in the source, so  *)
(* the entry under the cursor is codeHistory[historyIndex + 1].            *)
(***************************************************************************)
EXTENDS Integers, Sequences, FiniteSets, Bags, TLC

VARIABLES
  state,          \* AppState: currentSite, isLoading, isSearching, error
  view,           \* "home" or "editor"
  isEditing,
  editError,
  codeHistory,    \* the History sequence
  historyIndex,   \* the History cursor, -1 when empty
  editHistory,    \* the EditRecord log, newest first
  streams,        \* generateWebsiteCodeStream calls that have not settled
  edits,          \* edit calls that have not settled
  lastOp,         \* the handler or continuation that ran last
  \* src/App.tsx only
  isFixing,
  isFetchingSuggestions,
  suggestions,
  chatHistory,
  pending,        \* the other service calls that have not settled
  uncaught,       \* an exception has left a handler
  \* the service functions on their own
  loop,           \* generateWebsiteCodeStream: its stream loop
  cleaning,       \* the fence cleanup applied to a text, then to its result
  failure,        \* a service function whose request has failed
  \* the browser
  download        \* handleDownloadZip: archives being generated, the file saved

historyVars == <<codeHistory, historyIndex, editHistory>>
appVars == <<isFixing, isFetchingSuggestions, suggestions, chatHistory, pending, uncaught>>
serviceVars == <<loop, cleaning, failure, download>>
vars == <<state, view, isEditing, editError,
          codeHistory, historyIndex, editHistory, streams, edits, lastOp,
          appVars, serviceVars>>

\* ---------------------------------------------------------------- bounds
MaxHistory == 2
MaxEditRecords == 1
MaxChunks == 1
MaxInFlight == 2

\* ---------------------------------------------------------------- values
NULL == "null"
NoSite == <<>>
InitialCode == <<"<!-- TechCode: Initializing Full-Stack Modules... -->">>

Prompts == {<<>>, <<" ">>, <<" ", "p">>}
Instructions == {<<>>, <<" ">>, <<"e", " ">>}
RawChunks == {<<"a">>}
RawResponses == {<<"b">>}
TypedCodes == {<<"b">>}
\* A service error is the set of the marker substrings its message contains.
ServiceErrors == {{"429"}}

\* ------------------------------------------------------------------ text
Whitespace == {" ", "\n"}
BackTick == "bq"
Fence == <<BackTick, BackTick, BackTick>>
OpenFence == Fence \o <<"html">>

StartsWith(s, p) == Len(s) >= Len(p) /\ SubSeq(s, 1, Len(p)) = p
EndsWith(s, p) == Len(s) >= Len(p) /\ SubSeq(s, Len(s) - Len(p) + 1, Len(s)) = p
Drop(s, n) == SubSeq(s, n + 1, Len(s))
DropLast(s, n) == SubSeq(s, 1, Len(s) - n)

RECURSIVE trimStart(_)
trimStart(s) == IF s # <<>> /\ Head(s) \in Whitespace THEN trimStart(Tail(s)) ELSE s

RECURSIVE trimEnd(_)
trimEnd(s) ==
  IF s # <<>> /\ s[Len(s)] \in Whitespace THEN trimEnd(DropLast(s, 1)) ELSE s

\* Faulty variant of trim: the text is left as it is.
untrimmed(s) == s

trim(s) == trimEnd(trimStart(s))

\* the first replace: an opening fence at the start, with the newline after it
stripOpenFence(s) ==
  IF StartsWith(s, OpenFence)
    THEN LET r == Drop(s, Len(OpenFence))
         IN IF r # <<>> /\ Head(r) = "\n" THEN Tail(r) ELSE r
    ELSE s

\* the second replace: a closing fence at the end, with the newline before it
stripCloseFence(s) ==
  IF EndsWith(s, Fence)
    THEN LET r == DropLast(s, Len(Fence))
         IN IF r # <<>> /\ r[Len(r)] = "\n" THEN DropLast(r, 1) ELSE r
    ELSE s

clean(s) == trim(stripCloseFence(stripOpenFence(s)))

\* Faulty variant of handleApiError: the key test before the rate test.
handleApiErrorKeyFirst(error) ==
  IF "403" \in error THEN "API Key error. Check configuration."
  ELSE IF "429" \in error THEN "Rate limit reached. Please wait a moment."
  ELSE IF "SAFETY" \in error THEN "Prompt blocked by safety filters."
  ELSE "Synthesis error. Please refine your prompt."

handleApiError(error) ==
  IF "429" \in error THEN "Rate limit reached. Please wait a moment."
  ELSE IF "403" \in error THEN "API Key error. Check configuration."
  ELSE IF "SAFETY" \in error THEN "Prompt blocked by safety filters."
  ELSE "Synthesis error. Please refine your prompt."

\* fastEditResponse: the cleaned response text, "" when the text is absent
fastEditResponse(text) == clean(text)

\* --------------------------------------------------------------- helpers
\* The calls in flight are bags: two calls may be equal, and they settle in any order.
Add(calls, call) == calls (+) SetToBag({call})
Remove(calls, call) == calls (-) SetToBag({call})
InFlight == BagCardinality(streams) + BagCardinality(edits)
At(history, index) == history[index + 1]
hasSite == state.currentSite # NoSite
displayed == state.currentSite[1].code

\* Faulty variant of withCode: the site is handed back with its old code.
withCodeStale(site, code) == site

\* { ...prev.currentSite, code }, kept null when the handler keeps it null
withCode(site, code) == IF site = NoSite THEN NoSite ELSE <<[site[1] EXCEPT !.code = code]>>
\* { ...prev.currentSite!, code }
withCodeForced(site, code) ==
  IF site = NoSite THEN <<[code |-> code]>> ELSE <<[site[1] EXCEPT !.code = code]>>

\* const newHistory = codeHistory.slice(0, historyIndex + 1); newHistory.push(code)
newHistory(history, index, code) == Append(SubSeq(history, 1, index + 1), code)

\* <button disabled={isLoading || props.disabled} {...props}>: the disabled
\* attribute the rendered button ends up with
Button(isLoading, disabledGiven, disabled) ==
  IF disabledGiven THEN disabled ELSE isLoading

isGenerating == state.isLoading

\* ------------------------------------------------------- faulty variants
\* Handlers with one fault each; the properties below must tell them from
\* the handlers of the source.

\* updateCode with the cursor put one past the new tail
updateCodeOffByOne(newCode) ==
  /\ view = "editor"
  /\ ~isGenerating
  /\ hasSite
  /\ LET history == newHistory(codeHistory, historyIndex, newCode)
     IN /\ Len(history) <= MaxHistory
        /\ codeHistory' = history
        /\ historyIndex' = Len(history)
  /\ state' = [state EXCEPT !.currentSite = withCodeForced(@, newCode)]
  /\ lastOp' = "updateCode"
  /\ UNCHANGED <<view, isEditing, editError, editHistory, streams, edits>>
  /\ UNCHANGED <<appVars, serviceVars>>

\* redo that moves the cursor and leaves the displayed code alone
redoCursorOnly ==
  /\ view = "editor"
  /\ ~isGenerating
  /\ IF historyIndex < Len(codeHistory) - 1
       THEN /\ historyIndex' = historyIndex + 1
            /\ lastOp' = "redo"
       ELSE /\ lastOp' = "redo:noop"
            /\ UNCHANGED historyIndex
  /\ UNCHANGED <<state, view, isEditing, editError,
                 codeHistory, editHistory, streams, edits>>
  /\ UNCHANGED <<appVars, serviceVars>>

\* undo that refuses to go back to the first entry
undoStuck ==
  /\ view = "editor"
  /\ ~isGenerating
  /\ IF historyIndex > 1
       THEN /\ historyIndex' = historyIndex - 1
            /\ state' = [state EXCEPT !.currentSite =
                           withCode(@, At(codeHistory, historyIndex - 1))]
            /\ lastOp' = "undo"
       ELSE /\ lastOp' = "undo:noop"
            /\ UNCHANGED <<state, historyIndex>>
  /\ UNCHANGED <<view, isEditing, editError,
                 codeHistory, editHistory, streams, edits>>
  /\ UNCHANGED <<appVars, serviceVars>>

\* restore that rewinds the cursor to the first entry instead of appending
restoreRewind(code) ==
  /\ view = "editor"
  /\ ~isGenerating
  /\ \E k \in DOMAIN editHistory : editHistory[k].code = code
  /\ codeHistory # <<>>
  /\ historyIndex' = 0
  /\ state' = [state EXCEPT !.currentSite = withCode(@, code)]
  /\ lastOp' = "restore"
  /\ UNCHANGED <<view, isEditing, editError,
                 codeHistory, editHistory, streams, edits>>
  /\ UNCHANGED <<appVars, serviceVars>>

\* a failed edit without the finally block
editRejectedNoFinally(call, error) ==
  /\ BagIn(call, edits)
  /\ editError' = handleApiError(error)
  /\ edits' = Remove(edits, call)
  /\ lastOp' = "edit:failed"
  /\ UNCHANGED <<state, view, isEditing,
                 codeHistory, historyIndex, editHistory, streams>>
  /\ UNCHANGED <<appVars, serviceVars>>

\* a failed edit that empties the EditRecord log
editRejectedClearsLog(call, error) ==
  /\ BagIn(call, edits)
  /\ editError' = handleApiError(error)
  /\ isEditing' = FALSE
  /\ editHistory' = <<>>
  /\ edits' = Remove(edits, call)
  /\ lastOp' = "edit:failed"
  /\ UNCHANGED <<state, view, codeHistory, historyIndex, streams>>
  /\ UNCHANGED <<appVars, serviceVars>>

\* a failed generation that commits the text streamed so far
generateRejectedCommits(stream, error) ==
  /\ BagIn(stream, streams)
  /\ state' = [state EXCEPT !.isLoading = FALSE, !.isSearching = FALSE,
                            !.error = handleApiError(error)]
  /\ view' = "home"
  /\ codeHistory' = <<clean(stream.fullText)>>
  /\ historyIndex' = 0
  /\ streams' = Remove(streams, stream)
  /\ lastOp' = "generate:failed"
  /\ UNCHANGED <<isEditing, editError, editHistory, edits>>
  /\ UNCHANGED <<appVars, serviceVars>>

\* ------------------------------------------------------------------ Init
\* What a specification leaves alone keeps these values.
HistoryIdle ==
  /\ codeHistory = <<>>
  /\ historyIndex = -1
  /\ editHistory = <<>>

AppIdle ==
  /\ isFixing = FALSE
  /\ isFetchingSuggestions = FALSE
  /\ suggestions = <<>>
  /\ chatHistory = <<>>
  /\ pending = EmptyBag
  /\ uncaught = FALSE
  /\ download = [generating |-> EmptyBag, saved |-> <<>>]

ServiceIdle ==
  /\ loop = NULL
  /\ cleaning = NULL
  /\ failure = NULL

Init ==
  /\ state = [currentSite |-> NoSite, isLoading |-> FALSE, isSearching |-> FALSE,
              error |-> NULL]
  /\ view = "home"
  /\ isEditing = FALSE
  /\ editError = NULL
  /\ codeHistory = <<>>
  /\ historyIndex = -1
  /\ editHistory = <<>>
  /\ streams = EmptyBag
  /\ edits = EmptyBag
  /\ lastOp = "init"
  /\ AppIdle
  /\ ServiceIdle

\* ------------------------------------------------------------- home view
handleGenerate(prompt, useSearch) ==
  /\ view = "home"
  /\ IF trim(prompt) = <<>>
       THEN /\ lastOp' = "generate:rejected"
            /\ UNCHANGED <<state, view, streams>>
       ELSE /\ InFlight < MaxInFlight
            /\ view' = "editor"
            /\ state' = [state EXCEPT !.currentSite = <<[code |-> InitialCode]>>,
                                      !.isLoading = TRUE,
                                      !.isSearching = useSearch,
                                      !.error = NULL]
            /\ streams' = Add(streams, [fullText |-> <<>>, chunks |-> 0])
            /\ lastOp' = "generate"
  /\ UNCHANGED <<isEditing, editError,
                 codeHistory, historyIndex, editHistory, edits>>
  /\ UNCHANGED <<appVars, serviceVars>>

\* ------------------------------------------------- the generation stream
onChunk(stream, text) ==
  /\ BagIn(stream, streams)
  /\ stream.chunks < MaxChunks
  /\ LET fullText == stream.fullText \o text
     IN /\ streams' = Add(Remove(streams, stream),
                          [fullText |-> fullText, chunks |-> stream.chunks + 1])
        /\ state' = [state EXCEPT !.currentSite = withCode(@, clean(fullText))]
  /\ lastOp' = "chunk"
  /\ UNCHANGED <<view, isEditing, editError,
                 codeHistory, historyIndex, editHistory, edits>>
  /\ UNCHANGED <<appVars, serviceVars>>

generateResolved(stream) ==
  /\ BagIn(stream, streams)
  /\ LET finalCode == clean(stream.fullText)
     IN /\ state' = [state EXCEPT !.isLoading = FALSE, !.isSearching = FALSE]
        /\ codeHistory' = <<finalCode>>
        /\ historyIndex' = 0
        /\ editHistory' = <<>>
  /\ streams' = Remove(streams, stream)
  /\ lastOp' = "generate:ok"
  /\ UNCHANGED <<view, isEditing, editError, edits>>
  /\ UNCHANGED <<appVars, serviceVars>>

generateRejected(stream, error) ==
  /\ BagIn(stream, streams)
  /\ state' = [state EXCEPT !.isLoading = FALSE, !.isSearching = FALSE,
                            !.error = handleApiError(error)]
  /\ view' = "home"
  /\ streams' = Remove(streams, stream)
  /\ lastOp' = "generate:failed"
  /\ UNCHANGED <<isEditing, editError,
                 codeHistory, historyIndex, editHistory, edits>>
  /\ UNCHANGED <<appVars, serviceVars>>

\* ----------------------------------------------------------- editor view
onBack ==
  /\ view = "editor"
  /\ view' = "home"
  /\ lastOp' = "back"
  /\ UNCHANGED <<state, isEditing, editError,
                 codeHistory, historyIndex, editHistory, streams, edits>>
  /\ UNCHANGED <<appVars, serviceVars>>

\* <Button onClick={onEdit} isLoading={isEditing && !isGenerating}
\*         disabled={!editPrompt.trim() || isGenerating}>
editButtonDisabled(editPrompt) ==
  Button((isEditing \/ state.isLoading) /\ ~isGenerating, TRUE,
         trim(editPrompt) = <<>> \/ isGenerating)

handleEdit(editPrompt) ==
  /\ view = "editor"
  /\ ~editButtonDisabled(editPrompt)
  /\ IF trim(editPrompt) = <<>> \/ ~hasSite
       THEN /\ lastOp' = "edit:rejected"
            /\ UNCHANGED <<isEditing, editError, edits>>
       ELSE /\ InFlight < MaxInFlight
            /\ isEditing' = TRUE
            /\ editError' = NULL
            /\ edits' = Add(edits, [instructions |-> editPrompt,
                                    codeHistory |-> codeHistory,
                                    historyIndex |-> historyIndex])
            /\ lastOp' = "edit"
  /\ UNCHANGED <<state, view,
                 codeHistory, historyIndex, editHistory, streams>>
  /\ UNCHANGED <<appVars, serviceVars>>

editResolved(call, text) ==
  /\ BagIn(call, edits)
  /\ Len(editHistory) < MaxEditRecords
  /\ LET newCode == fastEditResponse(text)
         history == newHistory(call.codeHistory, call.historyIndex, newCode)
     IN /\ Len(history) <= MaxHistory
        /\ codeHistory' = history
        /\ historyIndex' = Len(history) - 1
        /\ editHistory' = <<[prompt |-> call.instructions, code |-> newCode]>>
                            \o editHistory
        /\ state' = [state EXCEPT !.currentSite = withCodeForced(@, newCode)]
  /\ isEditing' = FALSE
  /\ edits' = Remove(edits, call)
  /\ lastOp' = "edit:ok"
  /\ UNCHANGED <<view, editError, streams>>
  /\ UNCHANGED <<appVars, serviceVars>>

editRejected(call, error) ==
  /\ BagIn(call, edits)
  /\ editError' = handleApiError(error)
  /\ isEditing' = FALSE
  /\ edits' = Remove(edits, call)
  /\ lastOp' = "edit:failed"
  /\ UNCHANGED <<state, view,
                 codeHistory, historyIndex, editHistory, streams>>
  /\ UNCHANGED <<appVars, serviceVars>>

restoreFromHistory(code) ==
  /\ view = "editor"
  /\ ~isGenerating
  /\ \E k \in DOMAIN editHistory : editHistory[k].code = code
  /\ LET history == newHistory(codeHistory, historyIndex, code)
     IN /\ Len(history) <= MaxHistory
        /\ codeHistory' = history
        /\ historyIndex' = Len(history) - 1
  /\ state' = [state EXCEPT !.currentSite = withCode(@, code)]
  /\ lastOp' = "restore"
  /\ UNCHANGED <<view, isEditing, editError,
                 editHistory, streams, edits>>
  /\ UNCHANGED <<appVars, serviceVars>>

\* The undo control is disabled by !canUndo || isGenerating; canUndo is the
\* test the handler makes itself, so it is left to the handler.
undo ==
  /\ view = "editor"
  /\ ~isGenerating
  /\ IF historyIndex > 0
       THEN /\ historyIndex' = historyIndex - 1
            /\ state' = [state EXCEPT !.currentSite =
                           withCode(@, At(codeHistory, historyIndex - 1))]
            /\ lastOp' = "undo"
       ELSE /\ lastOp' = "undo:noop"
            /\ UNCHANGED <<state, historyIndex>>
  /\ UNCHANGED <<view, isEditing, editError,
                 codeHistory, editHistory, streams, edits>>
  /\ UNCHANGED <<appVars, serviceVars>>

redo ==
  /\ view = "editor"
  /\ ~isGenerating
  /\ IF historyIndex < Len(codeHistory) - 1
       THEN /\ historyIndex' = historyIndex + 1
            /\ state' = [state EXCEPT !.currentSite =
                           withCode(@, At(codeHistory, historyIndex + 1))]
            /\ lastOp' = "redo"
       ELSE /\ lastOp' = "redo:noop"
            /\ UNCHANGED <<state, historyIndex>>
  /\ UNCHANGED <<view, isEditing, editError,
                 codeHistory, editHistory, streams, edits>>
  /\ UNCHANGED <<appVars, serviceVars>>

\* onChange={(e) => !isGenerating && onUpdateCode(e.target.value)}
updateCode(newCode) ==
  /\ view = "editor"
  /\ ~isGenerating
  /\ IF ~hasSite
       THEN /\ lastOp' = "updateCode:rejected"
            /\ UNCHANGED <<state, codeHistory, historyIndex>>
       ELSE /\ LET history == newHistory(codeHistory, historyIndex, newCode)
               IN /\ Len(history) <= MaxHistory
                  /\ codeHistory' = history
                  /\ historyIndex' = Len(history) - 1
            /\ state' = [state EXCEPT !.currentSite = withCodeForced(@, newCode)]
            /\ lastOp' = "updateCode"
  /\ UNCHANGED <<view, isEditing, editError,
                 editHistory, streams, edits>>
  /\ UNCHANGED <<appVars, serviceVars>>

\* ------------------------------------------------------------------ Next
Next ==
  \/ \E prompt \in Prompts, useSearch \in BOOLEAN : handleGenerate(prompt, useSearch)
  \/ \E stream \in BagToSet(streams), text \in RawChunks : onChunk(stream, text)
  \/ \E stream \in BagToSet(streams) : generateResolved(stream)
  \/ \E stream \in BagToSet(streams), error \in ServiceErrors : generateRejected(stream, error)
  \/ onBack
  \/ \E editPrompt \in Instructions : handleEdit(editPrompt)
  \/ \E call \in BagToSet(edits), text \in RawResponses : editResolved(call, text)
  \/ \E call \in BagToSet(edits), error \in ServiceErrors : editRejected(call, error)
  \/ \E code \in {editHistory[k].code : k \in DOMAIN editHistory} : restoreFromHistory(code)
  \/ undo
  \/ redo
  \/ \E code \in TypedCodes : updateCode(code)

Spec == Init /\ [][Next]_vars

\* ======================================================= src/App.tsx
\* The controller of src/App.tsx: no History, an auto-fix, suggestions and a
\* chat.  It shares state, view, isEditing, editError, streams, edits and
\* lastOp with the controller above; its handlers carry the suffix _App
\* where the two controllers use the same name.  Its controls are taken to
\* be operable whenever their disabled attribute is false.

\* ---------------------------------------------------------------- bounds
MaxAppCalls == 1
MaxChat == 1

\* ---------------------------------------------------------------- values
EmptyCode == <<>>
Outcomes == {"ok", "error"}
AppErrors == {{"403"}}
FixResponses == {<<>>, <<"b">>}
EditResponses == {<<>>, <<"b">>}
ChatInputs == {<<>>, <<"c">>}
SuggestionLists == {<<"tip">>}
FallbackSuggestions ==
  <<"Optimize asset delivery", "Enhance ARIA labels", "Refine color contrast">>
FallbackEstimate == 45

\* --------------------------------------------- service functions, settled
\* A settled call: ok with its value, or rejected with its message.
resolved(value) == [ok |-> TRUE, value |-> value]
rejected(message) == [ok |-> FALSE, value |-> message]

\* Faulty variant of estimateGenerationTime: without its catch.
estimateGenerationTimeNoCatch(outcome, error) ==
  IF outcome = "ok" THEN resolved(30) ELSE rejected(handleApiError(error))

\* estimateGenerationTime: the catch returns { seconds: 45, ... }
estimateGenerationTime(outcome, error) ==
  IF outcome = "ok" THEN resolved(30) ELSE resolved(FallbackEstimate)

\* getCodingSuggestions: the catch returns the three stock suggestions
getCodingSuggestions(outcome, list) ==
  IF outcome = "ok" THEN resolved(list) ELSE resolved(FallbackSuggestions)

\* autoFixCode: (response.text || code), cleaned; the catch rethrows
autoFixCode(code, outcome, text, error) ==
  IF outcome = "ok"
    THEN resolved(clean(IF text # <<>> THEN text ELSE code))
    ELSE rejected(handleApiError(error))

\* chatWithAI: the catch returns "Chat error: " + handleApiError(error)
chatWithAI(outcome, error) ==
  IF outcome = "ok" THEN resolved(<<"reply">>)
  ELSE resolved(<<"Chat error: ", handleApiError(error)>>)

\* --------------------------------------------------------------- helpers
callsOf(fns) == {call \in BagToSet(pending) : call.fn \in fns}
InFlight_App == InFlight + BagCardinality(pending)

\* triggerSuggestions(code), up to its await; it takes the place of the call
\* that has just settled
triggerSuggestions(calls, code) ==
  /\ isFetchingSuggestions' = TRUE
  /\ pending' = Add(calls, [fn |-> "getCodingSuggestions", code |-> code])

\* The search pass of generateWebsiteCodeStream: its own try/catch swallows
\* the failure.
searchPass(outcome) ==
  IF outcome = "ok" THEN resolved("sources") ELSE resolved("no sources")

\* generateWebsiteCodeStream, settled after the chunks in fullText: the
\* cleaned text, or the catch's new Error(handleApiError(error))
generateWebsiteCodeStream(fullText, outcome, error) ==
  IF outcome = "ok" THEN resolved(clean(fullText))
  ELSE rejected(handleApiError(error))

\* fastEditResponse as a call: the catch rethrows the mapped message
fastEditResponseCall(outcome, text, error) ==
  IF outcome = "ok" THEN resolved(fastEditResponse(text))
  ELSE rejected(handleApiError(error))

\* ------------------------------------------------------- faulty variants
\* handleEdit's settling without its finally: the catch leaves isEditing set.
editSettledNoFinally(call, outcome, text, error) ==
  /\ call \in BagToSet(edits)
  /\ edits' = Remove(edits, call)
  /\ LET result == fastEditResponseCall(outcome, text, error) IN
     IF result.ok
       THEN /\ state' = [state EXCEPT
                           !.currentSite = withCodeForced(@, result.value)]
            /\ triggerSuggestions(pending, result.value)
            /\ isEditing' = FALSE
            /\ lastOp' = "edit:ok"
            /\ UNCHANGED editError
       ELSE /\ editError' = result.value
            /\ lastOp' = "edit:failed"
            /\ UNCHANGED <<state, isFetchingSuggestions, pending, isEditing>>
  /\ UNCHANGED <<view, streams, isFixing, suggestions, chatHistory, uncaught,
                 historyVars, serviceVars>>

\* ------------------------------------------------------------------ Init
InitApp ==
  /\ state = [currentSite |-> NoSite, isLoading |-> FALSE, isSearching |-> FALSE,
              error |-> NULL]
  /\ view = "home"
  /\ isEditing = FALSE
  /\ editError = NULL
  /\ streams = EmptyBag
  /\ edits = EmptyBag
  /\ lastOp = "init"
  /\ HistoryIdle
  /\ AppIdle
  /\ ServiceIdle

\* ------------------------------------------------------------- home view
handleGenerate_App(prompt, useSearch) ==
  /\ view = "home"
  /\ IF trim(prompt) = <<>>
       THEN /\ lastOp' = "generate:rejected"
            /\ UNCHANGED <<state, view, pending>>
       ELSE /\ state' = [state EXCEPT !.isLoading = TRUE, !.error = NULL,
                                      !.currentSite = <<[code |-> EmptyCode]>>]
            /\ view' = "editor"
            /\ pending' = Add(pending, [fn |-> "estimateGenerationTime",
                                        useSearch |-> useSearch,
                                        prior |-> state.currentSite])
            /\ lastOp' = "generate"
  /\ UNCHANGED <<isEditing, editError, streams, edits, isFixing,
                 isFetchingSuggestions, suggestions, chatHistory, uncaught,
                 historyVars, serviceVars>>

\* const estimate = await estimateGenerationTime(prompt), outside the try;
\* then generateWebsiteCodeStream is called
estimateSettled(call, outcome, error) ==
  /\ call \in callsOf({"estimateGenerationTime"})
  /\ LET result == estimateGenerationTime(outcome, error) IN
     IF result.ok
       THEN /\ streams' = Add(streams, [fullText |-> <<>>, chunks |-> 0,
                                        phase |-> IF call.useSearch THEN "search"
                                                  ELSE "stream",
                                        prior |-> call.prior])
            /\ lastOp' = "estimate"
            /\ UNCHANGED uncaught
       ELSE /\ uncaught' = TRUE
            /\ lastOp' = "estimate:uncaught"
            /\ UNCHANGED streams
  /\ pending' = Remove(pending, call)
  /\ UNCHANGED <<state, view, isEditing, editError, edits, isFixing,
                 isFetchingSuggestions, suggestions, chatHistory, historyVars,
                 serviceVars>>

\* the search pass settles; the stream is opened either way
searchSettled(stream, outcome) ==
  /\ stream \in BagToSet(streams)
  /\ stream.phase = "search"
  /\ LET result == searchPass(outcome) IN
     IF result.ok
       THEN /\ streams' = Add(Remove(streams, stream),
                              [stream EXCEPT !.phase = "stream"])
            /\ lastOp' = "search"
            /\ UNCHANGED <<state, view>>
       ELSE /\ streams' = Remove(streams, stream)
            /\ state' = [state EXCEPT !.isLoading = FALSE, !.error = result.value,
                                      !.currentSite = NoSite]
            /\ view' = "home"
            /\ lastOp' = "generate:failed"
  /\ UNCHANGED <<isEditing, editError, edits, appVars, historyVars, serviceVars>>

\* onChunk: currentSite: { id: 'new', prompt, code: chunk, ... }
onChunk_App(stream, text) ==
  /\ stream \in BagToSet(streams)
  /\ stream.phase = "stream"
  /\ stream.chunks < MaxChunks
  /\ LET fullText == stream.fullText \o text IN
     /\ streams' = Add(Remove(streams, stream),
                       [stream EXCEPT !.fullText = fullText, !.chunks = @ + 1])
     /\ state' = [state EXCEPT !.currentSite = <<[code |-> clean(fullText)]>>]
  /\ lastOp' = "chunk"
  /\ UNCHANGED <<view, isEditing, editError, edits, appVars, historyVars,
                 serviceVars>>

\* the await of generateWebsiteCodeStream settles: the try's rest or the catch
generateSettled(stream, outcome, error) ==
  /\ stream \in BagToSet(streams)
  /\ stream.phase = "stream"
  /\ streams' = Remove(streams, stream)
  /\ LET result == generateWebsiteCodeStream(stream.fullText, outcome, error) IN
     IF result.ok
       THEN /\ state' = [state EXCEPT !.isLoading = FALSE]
            /\ triggerSuggestions(pending, result.value)
            /\ lastOp' = "generate:ok"
            /\ UNCHANGED view
       ELSE /\ state' = [state EXCEPT !.isLoading = FALSE, !.error = result.value,
                                      !.currentSite = NoSite]
            /\ view' = "home"
            /\ lastOp' = "generate:failed"
            /\ UNCHANGED <<isFetchingSuggestions, pending>>
  /\ UNCHANGED <<isEditing, editError, edits, isFixing, suggestions, chatHistory,
                 uncaught, historyVars, serviceVars>>

\* triggerSuggestions after its await: setSuggestions(results)
suggestionsSettled(call, outcome, list) ==
  /\ call \in callsOf({"getCodingSuggestions"})
  /\ pending' = Remove(pending, call)
  /\ LET result == getCodingSuggestions(outcome, list) IN
     IF result.ok
       THEN /\ suggestions' = result.value
            /\ isFetchingSuggestions' = FALSE
            /\ UNCHANGED uncaught
       ELSE /\ uncaught' = TRUE
            /\ UNCHANGED <<suggestions, isFetchingSuggestions>>
  /\ lastOp' = "suggestions"
  /\ UNCHANGED <<state, view, isEditing, editError, streams, edits, isFixing,
                 chatHistory, historyVars, serviceVars>>

\* ----------------------------------------------------------- editor view
onBack_App ==
  /\ view = "editor"
  /\ view' = "home"
  /\ lastOp' = "back"
  /\ UNCHANGED <<state, isEditing, editError, streams, edits, appVars,
                 historyVars, serviceVars>>

handleAutoFix ==
  /\ view = "editor"
  /\ ~Button(isFixing, FALSE, FALSE)
  /\ hasSite /\ ~isFixing
  /\ isFixing' = TRUE
  /\ pending' = Add(pending, [fn |-> "autoFixCode", code |-> displayed])
  /\ lastOp' = "fix"
  /\ UNCHANGED <<state, view, isEditing, editError, streams, edits,
                 isFetchingSuggestions, suggestions, chatHistory, uncaught,
                 historyVars, serviceVars>>

\* the await of autoFixCode settles: the try's rest or the catch, then finally
fixSettled(call, outcome, text, error) ==
  /\ call \in callsOf({"autoFixCode"})
  /\ LET result == autoFixCode(call.code, outcome, text, error) IN
     IF result.ok
       THEN /\ state' = [state EXCEPT
                           !.currentSite = withCodeForced(@, result.value)]
            /\ triggerSuggestions(Remove(pending, call), result.value)
            /\ lastOp' = "fix:ok"
            /\ UNCHANGED editError
       ELSE /\ editError' = result.value
            /\ pending' = Remove(pending, call)
            /\ lastOp' = "fix:failed"
            /\ UNCHANGED <<state, isFetchingSuggestions>>
  /\ isFixing' = FALSE
  /\ UNCHANGED <<view, isEditing, streams, edits, suggestions, chatHistory,
                 uncaught, historyVars, serviceVars>>

handleEdit_App(editPrompt) ==
  /\ view = "editor"
  /\ ~Button(isEditing, FALSE, FALSE)
  /\ IF trim(editPrompt) = <<>> \/ ~hasSite
       THEN /\ lastOp' = "edit:rejected"
            /\ UNCHANGED <<isEditing, editError, edits>>
       ELSE /\ isEditing' = TRUE
            /\ editError' = NULL
            /\ edits' = Add(edits, [instructions |-> editPrompt, code |-> displayed])
            /\ lastOp' = "edit"
  /\ UNCHANGED <<state, view, streams, appVars, historyVars, serviceVars>>

\* the await of fastEditResponse settles: the try's rest or the catch, then
\* finally
editSettled(call, outcome, text, error) ==
  /\ call \in BagToSet(edits)
  /\ edits' = Remove(edits, call)
  /\ LET result == fastEditResponseCall(outcome, text, error) IN
     IF result.ok
       THEN /\ state' = [state EXCEPT
                           !.currentSite = withCodeForced(@, result.value)]
            /\ triggerSuggestions(pending, result.value)
            /\ lastOp' = "edit:ok"
            /\ UNCHANGED editError
       ELSE /\ editError' = result.value
            /\ lastOp' = "edit:failed"
            /\ UNCHANGED <<state, isFetchingSuggestions, pending>>
  /\ isEditing' = FALSE
  /\ UNCHANGED <<view, streams, isFixing, suggestions, chatHistory, uncaught,
                 historyVars, serviceVars>>

handleChat(chatInput) ==
  /\ view = "editor"
  /\ trim(chatInput) # <<>>
  /\ Len(chatHistory) < 2 * MaxChat
  /\ chatHistory' = Append(chatHistory, [role |-> "user", text |-> chatInput])
  /\ pending' = Add(pending, [fn |-> "chatWithAI"])
  /\ lastOp' = "chat"
  /\ UNCHANGED <<state, view, isEditing, editError, streams, edits, isFixing,
                 isFetchingSuggestions, suggestions, uncaught, historyVars,
                 serviceVars>>

\* handleChat after its await, which no try encloses
chatSettled(call, outcome, error) ==
  /\ call \in callsOf({"chatWithAI"})
  /\ pending' = Remove(pending, call)
  /\ LET result == chatWithAI(outcome, error) IN
     IF result.ok
       THEN /\ chatHistory' = Append(chatHistory,
                                     [role |-> "model", text |-> result.value])
            /\ UNCHANGED uncaught
       ELSE /\ uncaught' = TRUE
            /\ UNCHANGED chatHistory
  /\ lastOp' = "chat:done"
  /\ UNCHANGED <<state, view, isEditing, editError, streams, edits, isFixing,
                 isFetchingSuggestions, suggestions, historyVars, serviceVars>>

\* ------------------------------------------------------------------ Next
\* The calls in flight settle, each kind of call on its own.
settleEstimate ==
  \E call \in BagToSet(pending), outcome \in Outcomes, error \in AppErrors :
    estimateSettled(call, outcome, error)

settleSearch ==
  \E stream \in BagToSet(streams), outcome \in Outcomes :
    searchSettled(stream, outcome)

settleGenerate ==
  \E stream \in BagToSet(streams), outcome \in Outcomes, error \in AppErrors :
    generateSettled(stream, outcome, error)

settleFix ==
  \E call \in BagToSet(pending), outcome \in Outcomes,
     text \in FixResponses, error \in AppErrors :
    fixSettled(call, outcome, text, error)

settleEdit ==
  \E call \in BagToSet(edits), outcome \in Outcomes,
     text \in EditResponses, error \in AppErrors :
    editSettled(call, outcome, text, error)

settleSuggestions ==
  \E call \in BagToSet(pending), outcome \in Outcomes,
     list \in SuggestionLists :
    suggestionsSettled(call, outcome, list)

settleChat ==
  \E call \in BagToSet(pending), outcome \in Outcomes, error \in AppErrors :
    chatSettled(call, outcome, error)

NextApp ==
  \/ /\ InFlight_App < MaxAppCalls
     /\ \E prompt \in Prompts, useSearch \in BOOLEAN :
          handleGenerate_App(prompt, useSearch)
  \/ \E stream \in BagToSet(streams), text \in RawChunks :
       onChunk_App(stream, text)
  \/ onBack_App
  \/ InFlight_App < MaxAppCalls /\ handleAutoFix
  \/ /\ InFlight_App < MaxAppCalls
     /\ \E editPrompt \in Instructions : handleEdit_App(editPrompt)
  \/ /\ InFlight_App < MaxAppCalls
     /\ \E chatInput \in ChatInputs : handleChat(chatInput)
  \/ settleEstimate
  \/ settleSearch
  \/ settleGenerate
  \/ settleFix
  \/ settleEdit
  \/ settleSuggestions
  \/ settleChat

SpecApp == InitApp /\ [][NextApp]_vars

\* The fair specification: every call the service is given eventually
\* resolves or rejects.  handleChat reads and writes chatInput and chatHistory
\* only, neither the flags nor the calls that clear them, and is left out.
NextLive ==
  \/ /\ InFlight_App < MaxAppCalls
     /\ \E prompt \in Prompts, useSearch \in BOOLEAN :
          handleGenerate_App(prompt, useSearch)
  \/ \E stream \in BagToSet(streams), text \in RawChunks :
       onChunk_App(stream, text)
  \/ onBack_App
  \/ InFlight_App < MaxAppCalls /\ handleAutoFix
  \/ /\ InFlight_App < MaxAppCalls
     /\ \E editPrompt \in Instructions : handleEdit_App(editPrompt)
  \/ settleEstimate
  \/ settleSearch
  \/ settleGenerate
  \/ settleFix
  \/ settleEdit
  \/ settleSuggestions

LiveSpecApp ==
  /\ InitApp
  /\ [][NextLive]_vars
  /\ WF_vars(settleEstimate)
  /\ WF_vars(settleSearch)
  /\ WF_vars(settleGenerate)
  /\ WF_vars(settleFix)
  /\ WF_vars(settleEdit)
  /\ WF_vars(settleSuggestions)


\* The session without the chat and without fairness.
SpecSession == InitApp /\ [][NextLive]_vars

\* The session with calls that overlap, without the chat.
MaxOverlap == 2

NextOverlap ==
  \/ /\ InFlight_App < MaxOverlap
     /\ \E prompt \in Prompts, useSearch \in BOOLEAN :
          handleGenerate_App(prompt, useSearch)
  \/ \E stream \in BagToSet(streams), text \in RawChunks :
       onChunk_App(stream, text)
  \/ onBack_App
  \/ InFlight_App < MaxOverlap /\ handleAutoFix
  \/ /\ InFlight_App < MaxOverlap
     /\ \E editPrompt \in Instructions : handleEdit_App(editPrompt)
  \/ settleEstimate
  \/ settleSearch
  \/ settleGenerate
  \/ settleFix
  \/ settleEdit
  \/ settleSuggestions

SpecOverlap == InitApp /\ [][NextOverlap]_vars

\* The session in which only advisory work overlaps: an operation starts
\* when nothing but suggestion requests is outstanding.
PrimaryIdle ==
  /\ InFlight = 0
  /\ \A call \in BagToSet(pending) : call.fn = "getCodingSuggestions"

NextAdvisory ==
  \/ /\ PrimaryIdle /\ InFlight_App < MaxOverlap
     /\ \E prompt \in Prompts, useSearch \in BOOLEAN :
          handleGenerate_App(prompt, useSearch)
  \/ \E stream \in BagToSet(streams), text \in RawChunks :
       onChunk_App(stream, text)
  \/ onBack_App
  \/ PrimaryIdle /\ InFlight_App < MaxOverlap /\ handleAutoFix
  \/ /\ PrimaryIdle /\ InFlight_App < MaxOverlap
     /\ \E editPrompt \in Instructions : handleEdit_App(editPrompt)
  \/ settleEstimate
  \/ settleSearch
  \/ settleGenerate
  \/ settleFix
  \/ settleEdit
  \/ settleSuggestions

SpecAdvisory == InitApp /\ [][NextAdvisory]_vars

\* ------------------------------------------------------------ the export
MaxDownloads == 1

\* The characters of the codes and their UTF-8 bytes.
CodeUnits == {"a", "b", "x"}
charCode(c) == CASE c = "a" -> 97 [] c = "b" -> 98 [] OTHER -> 120
utf8encode(text) == [i \in 1..Len(text) |-> charCode(text[i])]
utf8decode(data) ==
  [i \in 1..Len(data) |-> CHOOSE c \in CodeUnits : charCode(c) = data[i]]

\* Faulty variant of zipFile: the entry is written without its content.
zipFileNoContent(code) == {[name |-> "index.html", data |-> <<>>]}

\* const zip = new JSZip(); zip.file("index.html", state.currentSite.code)
zipFile(code) == {[name |-> "index.html", data |-> utf8encode(code)]}

\* the text of an entry, read back from the archive
readEntry(zip, name) ==
  utf8decode((CHOOSE entry \in zip : entry.name = name).data)

\* handleDownloadZip, up to its await of zip.generateAsync; the archive
\* remembers the code it was made from
handleDownloadZip ==
  /\ view = "editor"
  /\ BagCardinality(download.generating) < MaxDownloads
  /\ IF ~hasSite
       THEN /\ lastOp' = "download:rejected"
            /\ UNCHANGED download
       ELSE /\ download' = [download EXCEPT !.generating =
                              Add(@, [zip |-> zipFile(displayed), code |-> displayed])]
            /\ lastOp' = "download"
  /\ UNCHANGED <<state, view, isEditing, editError, streams, edits, appVars,
                 historyVars, loop, cleaning, failure>>

\* the archive is generated: link.click() saves it
zipGenerated(archive) ==
  /\ archive \in BagToSet(download.generating)
  /\ download' = [generating |-> Remove(download.generating, archive),
                  saved |-> <<archive>>]
  /\ lastOp' = "download:saved"
  /\ UNCHANGED <<state, view, isEditing, editError, streams, edits, appVars,
                 historyVars, loop, cleaning, failure>>

\* The session with its download button; auto-fix, chat and the back button
\* are left out.
NextExport ==
  \/ /\ InFlight_App < MaxAppCalls
     /\ \E prompt \in Prompts, useSearch \in BOOLEAN :
          handleGenerate_App(prompt, useSearch)
  \/ \E stream \in BagToSet(streams), text \in RawChunks :
       onChunk_App(stream, text)
  \/ /\ InFlight_App < MaxAppCalls
     /\ \E editPrompt \in Instructions : handleEdit_App(editPrompt)
  \/ settleEstimate
  \/ settleSearch
  \/ settleGenerate
  \/ settleEdit
  \/ settleSuggestions
  \/ handleDownloadZip
  \/ \E archive \in BagToSet(download.generating) : zipGenerated(archive)

SpecExport == InitApp /\ [][NextExport]_vars

\* ------------------------------------------------------ search grounding
\* handleGenerate of src/components/LoadingOverlay.tsx with the sources of
\* the search pass: the site carries its sources, the stream remembers what
\* it has handed to onSources.

\* searchResponse.candidates?.[0]?.groundingMetadata?.groundingChunks, each
\* chunk by its uri
SearchResponses ==
  {[present |-> FALSE, chunks |-> <<>>]} \cup
  {[present |-> TRUE, chunks |-> chunks] : chunks \in {<<>>, <<"">>, <<"", "u">>}}

\* chunks.map(c => ({ title, uri: c.web?.uri || "" })).filter(s => s.uri)
surfacedSources(chunks) == SelectSeq(chunks, LAMBDA uri : uri # "")

handleGenerate_Grounded(prompt, useSearch) ==
  /\ view = "home"
  /\ trim(prompt) # <<>>
  /\ view' = "editor"
  /\ state' = [state EXCEPT
                 !.currentSite = <<[code |-> InitialCode, sources |-> <<>>]>>,
                 !.isLoading = TRUE,
                 !.isSearching = useSearch,
                 !.error = NULL]
  /\ streams' = Add(streams, [fullText |-> <<>>, chunks |-> 0,
                              phase |-> IF useSearch THEN "search" ELSE "stream",
                              surfaced |-> <<>>])
  /\ lastOp' = "generate"
  /\ UNCHANGED <<isEditing, editError, edits, historyVars, appVars, serviceVars>>

\* the search pass settles: onSources is called when the response has
\* grounding chunks; a failure is swallowed; the main stream follows
searchSettled_Grounded(stream, outcome, response) ==
  /\ stream \in BagToSet(streams)
  /\ stream.phase = "search"
  /\ IF outcome = "ok" /\ response.present
       THEN LET sources == surfacedSources(response.chunks) IN
            /\ streams' = Add(Remove(streams, stream),
                              [stream EXCEPT !.phase = "stream",
                                             !.surfaced = Append(@, sources)])
            /\ state' = [state EXCEPT !.currentSite =
                           IF @ = NoSite THEN NoSite
                           ELSE <<[@[1] EXCEPT !.sources = sources]>>]
            /\ lastOp' = "sources"
       ELSE /\ streams' = Add(Remove(streams, stream),
                              [stream EXCEPT !.phase = "stream"])
            /\ lastOp' = "search"
            /\ UNCHANGED state
  /\ UNCHANGED <<view, isEditing, editError, edits, historyVars, appVars,
                 serviceVars>>

onChunk_Grounded(stream, text) ==
  /\ stream \in BagToSet(streams)
  /\ stream.phase = "stream"
  /\ stream.chunks < MaxChunks
  /\ LET fullText == stream.fullText \o text IN
     /\ streams' = Add(Remove(streams, stream),
                       [stream EXCEPT !.fullText = fullText, !.chunks = @ + 1])
     /\ state' = [state EXCEPT !.currentSite = withCode(@, clean(fullText))]
  /\ lastOp' = "chunk"
  /\ UNCHANGED <<view, isEditing, editError, edits, historyVars, appVars,
                 serviceVars>>

generateSettled_Grounded(stream, outcome, error) ==
  /\ stream \in BagToSet(streams)
  /\ stream.phase = "stream"
  /\ streams' = Remove(streams, stream)
  /\ LET result == generateWebsiteCodeStream(stream.fullText, outcome, error) IN
     IF result.ok
       THEN /\ state' = [state EXCEPT !.isLoading = FALSE, !.isSearching = FALSE]
            /\ codeHistory' = <<result.value>>
            /\ historyIndex' = 0
            /\ editHistory' = <<>>
            /\ lastOp' = "generate:ok"
            /\ UNCHANGED view
       ELSE /\ state' = [state EXCEPT !.isLoading = FALSE, !.isSearching = FALSE,
                                      !.error = result.value]
            /\ view' = "home"
            /\ lastOp' = "generate:failed"
            /\ UNCHANGED historyVars
  /\ UNCHANGED <<isEditing, editError, edits, appVars, serviceVars>>

NextGrounding ==
  \/ /\ BagCardinality(streams) < MaxInFlight
     /\ \E prompt \in Prompts, useSearch \in BOOLEAN :
          handleGenerate_Grounded(prompt, useSearch)
  \/ \E stream \in BagToSet(streams), outcome \in Outcomes,
        response \in SearchResponses :
       searchSettled_Grounded(stream, outcome, response)
  \/ \E stream \in BagToSet(streams), text \in RawChunks :
       onChunk_Grounded(stream, text)
  \/ \E stream \in BagToSet(streams), outcome \in Outcomes, error \in ServiceErrors :
       generateSettled_Grounded(stream, outcome, error)
  \/ onBack

SpecGrounding == Init /\ [][NextGrounding]_vars

\* ============================================================ the service
\* The controller's variables while a service function is looked at alone.
ControllerIdle ==
  /\ state = [currentSite |-> NoSite, isLoading |-> FALSE, isSearching |-> FALSE,
              error |-> NULL]
  /\ view = "home"
  /\ isEditing = FALSE
  /\ editError = NULL
  /\ streams = EmptyBag
  /\ edits = EmptyBag
  /\ lastOp = "init"

controllerVars == <<state, view, isEditing, editError, streams, edits, lastOp>>

\* ---------------------------------------------------------------- bounds
MaxTextLen == 4
MaxLoopChunks == 3
MaxErrorLen == 2

\* ---------------------------------------------------------------- values
Alphabet == {BackTick, "html", "\n", " ", "x"}
Texts == UNION {[1..n -> Alphabet] : n \in 0..MaxTextLen}
\* chunk.text of the chunks a stream may deliver; <<>> is a chunk without text
StreamChunks ==
  {<<>>, <<" ">>, <<"x">>, <<BackTick>>, Fence, OpenFence \o <<"\n">>,
   <<"x", "\n", BackTick, BackTick>>}
Markers == {"429", "403", "SAFETY"}
ErrorTexts == UNION {[1..n -> Markers \cup {"x"}] : n \in 0..MaxErrorLen}
\* what a request fails with: its message, <<>> when it has none, and what
\* String(error) gives
ApiErrors == [message : ErrorTexts, string : ErrorTexts]

\* ------------------------------------------------- the fence cleanup alone
InitClean ==
  /\ cleaning \in {[x |-> x, results |-> <<>>] : x \in Texts}
  /\ loop = NULL
  /\ failure = NULL
  /\ ControllerIdle
  /\ HistoryIdle
  /\ AppIdle

\* the cleanup chain applied to a raw text
cleanText ==
  /\ cleaning.results = <<>>
  /\ cleaning' = [cleaning EXCEPT !.results = <<clean(cleaning.x)>>]
  /\ UNCHANGED <<controllerVars, historyVars, appVars, loop, failure, download>>

\* the cleanup chain applied to what it returned
cleanAgain ==
  /\ Len(cleaning.results) = 1
  /\ cleaning' = [cleaning EXCEPT !.results = Append(@, clean(@[1]))]
  /\ UNCHANGED <<controllerVars, historyVars, appVars, loop, failure, download>>

NextClean == cleanText \/ cleanAgain

SpecClean == InitClean /\ [][NextClean]_vars

\* ----------------------------------- generateWebsiteCodeStream: the loop
\* Faulty variant of the loop body: the chunk alone is handed on.
streamChunkDelta(text) ==
  /\ loop.returned = <<>>
  /\ Len(loop.sent) < MaxLoopChunks
  /\ loop' = [loop EXCEPT !.sent = Append(@, text),
                          !.fullText = @ \o text,
                          !.emitted = Append(@, clean(text)),
                          !.shown = <<clean(text)>>]
  /\ UNCHANGED <<controllerVars, historyVars, appVars, cleaning, failure, download>>

InitStream ==
  /\ loop = [sent |-> <<>>, fullText |-> <<>>, emitted |-> <<>>,
             shown |-> <<>>, returned |-> <<>>]
  /\ cleaning = NULL
  /\ failure = NULL
  /\ ControllerIdle
  /\ HistoryIdle
  /\ AppIdle

\* for await (const chunk of stream) { fullText += chunk.text || ""; onChunk(...) }
\* sent: the chunks so far; emitted: the values handed to onChunk, in order;
\* shown: the code the consumer's callback has put on display
streamChunk(text) ==
  /\ loop.returned = <<>>
  /\ Len(loop.sent) < MaxLoopChunks
  /\ LET fullText == loop.fullText \o text
     IN loop' = [loop EXCEPT !.sent = Append(@, text),
                             !.fullText = fullText,
                             !.emitted = Append(@, clean(fullText)),
                             !.shown = <<clean(fullText)>>]
  /\ UNCHANGED <<controllerVars, historyVars, appVars, cleaning, failure, download>>

\* return fullText.replace(...).replace(...).trim()
streamReturn ==
  /\ loop.returned = <<>>
  /\ loop' = [loop EXCEPT !.returned = <<clean(loop.fullText)>>]
  /\ UNCHANGED <<controllerVars, historyVars, appVars, cleaning, failure, download>>

NextStream ==
  \/ \E text \in StreamChunks : streamChunk(text)
  \/ streamReturn

SpecStream == InitStream /\ [][NextStream]_vars

\* ------------------------------------------------ the failure of a request
\* const message = error?.message || String(error)
messageOf(error) == IF error.message # <<>> THEN error.message ELSE error.string
includes(message, marker) == \E i \in DOMAIN message : message[i] = marker
markersOf(error) == {marker \in Markers : includes(messageOf(error), marker)}

\* catch (error) { throw new Error(handleApiError(error)) }
thrownBy(fn, error) == [fn |-> fn, error |-> error,
                        thrown |-> handleApiError(markersOf(error))]

InitError ==
  /\ failure \in {[fn |-> NULL, error |-> error, thrown |-> NULL] : error \in ApiErrors}
  /\ loop = NULL
  /\ cleaning = NULL
  /\ ControllerIdle
  /\ HistoryIdle
  /\ AppIdle

generateWebsiteCodeStreamFails ==
  /\ failure.fn = NULL
  /\ failure' = thrownBy("generateWebsiteCodeStream", failure.error)
  /\ UNCHANGED <<controllerVars, historyVars, appVars, loop, cleaning, download>>

autoFixCodeFails ==
  /\ failure.fn = NULL
  /\ failure' = thrownBy("autoFixCode", failure.error)
  /\ UNCHANGED <<controllerVars, historyVars, appVars, loop, cleaning, download>>

fastEditResponseFails ==
  /\ failure.fn = NULL
  /\ failure' = thrownBy("fastEditResponse", failure.error)
  /\ UNCHANGED <<controllerVars, historyVars, appVars, loop, cleaning, download>>

NextError ==
  \/ generateWebsiteCodeStreamFails
  \/ autoFixCodeFails
  \/ fastEditResponseFails

SpecError == InitError /\ [][NextError]_vars

\* ------------------------------------------------------------ properties
\* The displayed code is the code of the entry under the cursor.
Agree ==
  /\ hasSite
  /\ codeHistory # <<>>
  /\ historyIndex \in 0..(Len(codeHistory) - 1)
  /\ displayed = At(codeHistory, historyIndex)

HistoryFrame == <<codeHistory, historyIndex>>
UndoOps == {"undo", "undo:noop"}
RedoOps == {"redo", "redo:noop"}
CommitOps == {"edit:ok", "updateCode"}
HistoryOps == CommitOps \cup {"restore"} \cup UndoOps \cup RedoOps
\* the operations that took effect
EffectiveOps == CommitOps \cup {"restore", "undo", "redo"}

\* C1: in every reachable state the cursor is in bounds: historyIndex is -1
\* exactly when codeHistory is empty, and otherwise 0 <= historyIndex <
\* Len(codeHistory).
CursorInBounds ==
  /\ (historyIndex = -1) <=> (codeHistory = <<>>)
  /\ codeHistory # <<>> => historyIndex \in 0..(Len(codeHistory) - 1)

\* C1 witness: the cursor sits below the tail after an undo made while an
\* edit request is still in flight.
CursorBelowTailDuringEdit ==
  /\ lastOp = "undo"
  /\ Len(codeHistory) = 2
  /\ historyIndex = 0
  /\ BagCardinality(edits) = 1

\* C2: a successful edit, a manual update, a restore, an undo or a redo that
\* starts where the displayed code is the entry under the cursor ends where
\* the displayed code is the entry under the cursor.
HistoryOpsPreserveAgree ==
  [][(lastOp' \in HistoryOps /\ Agree) => Agree']_vars

\* C2 witness: a redo has put the cursor back on the second entry and the
\* displayed code is that entry.
RedoneOntoSecondEntry ==
  /\ lastOp = "redo"
  /\ historyIndex = 1
  /\ Agree

CommitTruncatesAtCursor ==
  [][lastOp' \in CommitOps =>
       /\ codeHistory' = newHistory(codeHistory, historyIndex, displayed')
       /\ historyIndex' = Len(codeHistory') - 1]_vars

\* C5: an undo with the cursor at 0 or below and a redo with the cursor on
\* the tail change nothing; any other undo moves the cursor back by one, any
\* other redo forward by one, History is kept and the displayed code becomes
\* the entry under the new cursor.
UndoRedoStep ==
  [][/\ lastOp' \in UndoOps =>
          IF historyIndex <= 0
            THEN UNCHANGED <<state, view, isEditing, editError, codeHistory,
                             historyIndex, editHistory, streams, edits>>
            ELSE /\ historyIndex' = historyIndex - 1
                 /\ codeHistory' = codeHistory
                 /\ displayed' = At(codeHistory, historyIndex - 1)
                 /\ UNCHANGED <<state.error, state.isLoading, state.isSearching,
                                editError, isEditing>>
     /\ lastOp' \in RedoOps =>
          IF historyIndex >= Len(codeHistory) - 1
            THEN UNCHANGED <<state, view, isEditing, editError, codeHistory,
                             historyIndex, editHistory, streams, edits>>
            ELSE /\ historyIndex' = historyIndex + 1
                 /\ codeHistory' = codeHistory
                 /\ displayed' = At(codeHistory, historyIndex + 1)
                 /\ UNCHANGED <<state.error, state.isLoading, state.isSearching,
                                editError, isEditing>>]_vars

\* C5 witness: an undo was asked for with the cursor already on the first of
\* two entries, and did nothing.
UndoAtFirstEntry ==
  /\ lastOp = "undo:noop"
  /\ historyIndex = 0
  /\ Len(codeHistory) = 2

\* C6: restoreFromHistory(code) with the cursor i on sequence s leaves
\* s[0..i] followed by code, the cursor one further on the new tail, the
\* displayed code equal to code, and the EditRecord log as it was.
RestoreIsCommit ==
  [][lastOp' = "restore" =>
       /\ \E k \in DOMAIN editHistory :
            /\ codeHistory' = newHistory(codeHistory, historyIndex, editHistory[k].code)
            /\ displayed' = editHistory[k].code
       /\ historyIndex' = historyIndex + 1
       /\ historyIndex' = Len(codeHistory') - 1
       /\ editHistory' = editHistory]_vars

\* C6 witness: a restore made from the first of two entries has replaced
\* the second entry with the restored code.
RestoredAsNewTip ==
  /\ lastOp = "restore"
  /\ Len(codeHistory) = 2
  /\ historyIndex = 1
  /\ displayed = editHistory[1].code

\* C7, as the spec states it: at most one generation stream or edit request
\* is in flight.
AtMostOneInFlight == InFlight <= 1

\* C8, as the spec states it: while a request is in flight no undo, redo or
\* restore changes History and no edit request is issued.
RejectedWhileInFlight ==
  [][InFlight > 0 =>
       /\ lastOp' \in UndoOps \cup RedoOps \cup {"restore"} => UNCHANGED HistoryFrame
       /\ lastOp' # "edit"]_vars

HistoryWrittenOnSuccess ==
  [][/\ HistoryFrame' # HistoryFrame =>
          lastOp' \in EffectiveOps \cup {"generate:ok"}
     /\ lastOp' = "generate:failed" => UNCHANGED HistoryFrame]_vars

\* C10 witness: a first generation has failed after a chunk was streamed;
\* the chunk is displayed and History is empty.
FirstGenerationFailedAfterChunk ==
  /\ lastOp = "generate:failed"
  /\ codeHistory = <<>>
  /\ historyIndex = -1
  /\ hasSite
  /\ displayed = <<"a">>

\* ------------------------------------------- properties of the service
RECURSIVE joined(_)
\* the chunks of a sequence, one after the other
joined(chunks) == IF chunks = <<>> THEN <<>> ELSE Head(chunks) \o joined(Tail(chunks))

hasFence(s) == \E i \in 1..(Len(s) - 2) : SubSeq(s, i, i + 2) = Fence
Taxonomy ==
  {"Rate limit reached. Please wait a moment.",
   "API Key error. Check configuration.",
   "Prompt blocked by safety filters.",
   "Synthesis error. Please refine your prompt."}

\* C13: the k-th value handed to onChunk is the cleaned concatenation of the
\* first k chunks, the code on display is the last value handed over, and
\* the returned text is the last value handed over when there was a chunk.
StreamCumulative ==
  /\ Len(loop.emitted) = Len(loop.sent)
  /\ \A k \in DOMAIN loop.emitted :
       loop.emitted[k] = clean(joined(SubSeq(loop.sent, 1, k)))
  /\ loop.emitted # <<>> => loop.shown = <<loop.emitted[Len(loop.emitted)]>>
  /\ (loop.returned # <<>> /\ loop.emitted # <<>>) =>
       loop.returned = <<loop.emitted[Len(loop.emitted)]>>

\* C13 witness: three chunks x, space, x were delivered and the stream
\* returned their concatenation.
ThreeChunksReturned ==
  /\ loop.sent = <<<<"x">>, <<" ">>, <<"x">>>>
  /\ loop.emitted = <<<<"x">>, <<"x">>, <<"x", " ", "x">>>>
  /\ loop.returned = <<<<"x", " ", "x">>>>

\* C14, as the spec states it (its first case): no value handed to onChunk
\* and no returned text holds three backquotes in a row.
NoFenceEmitted ==
  /\ \A k \in DOMAIN loop.emitted : ~hasFence(loop.emitted[k])
  /\ \A k \in DOMAIN loop.returned : ~hasFence(loop.returned[k])

\* C15, as the spec states it: the cleanup applied to a cleaned text returns
\* it unchanged.
CleanIdempotent ==
  Len(cleaning.results) = 2 => cleaning.results[2] = cleaning.results[1]

\* C17: the message a service function throws is the rate-limit message when
\* the failure's message includes 429, else the key message when it includes
\* 403, else the safety message when it includes SAFETY, else the fallback;
\* it is one of the four messages and not empty.
ErrorTaxonomy ==
  failure.thrown # NULL =>
    LET message == messageOf(failure.error)
    IN /\ failure.thrown =
            IF includes(message, "429") THEN "Rate limit reached. Please wait a moment."
            ELSE IF includes(message, "403") THEN "API Key error. Check configuration."
            ELSE IF includes(message, "SAFETY") THEN "Prompt blocked by safety filters."
            ELSE "Synthesis error. Please refine your prompt."
       /\ failure.thrown \in Taxonomy
       /\ failure.thrown # ""

\* C17 witness: autoFixCode failed with a message that includes both 403 and
\* 429 and threw the rate-limit message.
RateLimitBeforeKey ==
  /\ failure.fn = "autoFixCode"
  /\ includes(messageOf(failure.error), "403")
  /\ includes(messageOf(failure.error), "429")
  /\ failure.thrown = "Rate limit reached. Please wait a moment."

\* ------------------------------------ further properties of the History
\* C12, as the spec states it: the step that completes a generation leaves
\* isLoading and isSearching false, the entry under the cursor equal to the
\* text the stream returned, and the displayed code equal to that text.
GenerationCommitsFinalText ==
  [][lastOp' = "generate:ok" =>
       /\ ~state'.isLoading
       /\ ~state'.isSearching
       /\ \E stream \in BagToSet(streams) :
            /\ streams' = Remove(streams, stream)
            /\ At(codeHistory', historyIndex') = clean(stream.fullText)
            /\ displayed' = clean(stream.fullText)]_vars

NoManualUpdateWhileStreaming ==
  [][BagCardinality(streams) > 0 => lastOp' # "updateCode"]_vars

\* ------------------------------------------- properties of src/App.tsx
\* C11: when a generation fails, after any number of chunks, the view is home
\* again, isLoading is false, state.error holds a mapped message, and
\* state.currentSite is what it was before the generation started.
FailedGenerationRestoresSession ==
  [][lastOp' = "generate:failed" =>
       \E stream \in BagToSet(streams) :
         /\ streams' = Remove(streams, stream)
         /\ view' = "home"
         /\ ~state'.isLoading
         /\ state'.error \in Taxonomy
         /\ state'.currentSite = stream.prior]_vars

\* C18: no step of a handler ends in an uncaught rejection, whatever the
\* outcome of its service call, and a failed generation, edit or auto-fix
\* leaves one of the taxonomy messages in state.error or in editError.
NoFailureEscapes ==
  [][/\ uncaught' = FALSE
     /\ lastOp' = "generate:failed" => state'.error \in Taxonomy
     /\ lastOp' \in {"edit:failed", "fix:failed"} => editError' \in Taxonomy]_vars

AutoFixFailureStored ==
  /\ lastOp = "fix:failed"
  /\ editError \in Taxonomy
  /\ ~uncaught

\* C19: when every call eventually resolves or rejects, a flag that is set is
\* eventually cleared again: isLoading, isEditing and isFixing.
FlagsReleased ==
  /\ state.isLoading ~> ~state.isLoading
  /\ isEditing ~> ~isEditing
  /\ isFixing ~> ~isFixing

EditReleasedAfterFailure ==
  /\ lastOp = "edit:failed"
  /\ ~isEditing
  /\ state.isLoading = FALSE

\* ----------------------------------------------- properties of the export
sessionVars == <<state, view, isEditing, editError, streams, edits, appVars,
                 historyVars>>

blank(s) == \A i \in 1..Len(s) : s[i] \in Whitespace

\* C22: handleGenerate with a prompt that is blank after trimming, and
\* handleEdit with a blank instruction or without a current site, start no
\* service call and leave the artifact, the History, the view, the error
\* fields and the flags as they are.
BlankInputIsNoOp ==
  [][/\ \A prompt \in Prompts, useSearch \in BOOLEAN :
          blank(prompt) /\ handleGenerate_App(prompt, useSearch)
            => UNCHANGED <<sessionVars, download>>
     /\ \A editPrompt \in Instructions :
          (blank(editPrompt) \/ ~hasSite) /\ handleEdit_App(editPrompt)
            => UNCHANGED <<sessionVars, download>>]_vars

BlankInstructionRejected ==
  /\ lastOp = "edit:rejected"
  /\ hasSite
  /\ InFlight_App = 0

\* ------------------------------------------ properties of the suggestions
issued(call) == CopiesIn(call, pending') - CopiesIn(call, pending)

\* C23: a successful generate, edit or auto-fix issues exactly one suggestion
\* request, for the code it has just made current, and its flag is cleared
\* without waiting for it; a failed one issues none; and the settling of a
\* suggestion request changes neither the artifact nor the flags.
SuggestionsFollowSuccess ==
  [][/\ lastOp' \in {"generate:ok", "edit:ok", "fix:ok"} =>
          /\ \E call \in BagToSet(pending') :
               /\ call.fn = "getCodingSuggestions"
               /\ issued(call) = 1
               /\ \A other \in BagToSet(pending') \ {call} : issued(other) = 0
               /\ state'.currentSite # NoSite
               /\ state'.currentSite[1].code = call.code
          /\ lastOp' = "generate:ok" => ~state'.isLoading
          /\ lastOp' = "edit:ok" => ~isEditing'
          /\ lastOp' = "fix:ok" => ~isFixing'
     /\ lastOp' \in {"generate:failed", "edit:failed", "fix:failed"} =>
          \A call \in BagToSet(pending') : issued(call) <= 0
     /\ lastOp' = "suggestions" =>
          UNCHANGED <<state, isEditing, isFixing, historyVars>>]_vars

\* --------------------------------------- properties of the search grounding
\* C24: the sources are handed to onSources at most once per generation,
\* before any chunk of its main stream, each with a uri that is not empty; a
\* failed search pass does not fail the generation; and the sources handed
\* over are the sources of the current site when the generation completes.
GroundingSurfacedAndKept ==
  [][/\ lastOp' = "sources" =>
          \E stream \in BagToSet(streams), after \in BagToSet(streams') :
            /\ streams' = Add(Remove(streams, stream), after)
            /\ stream.chunks = 0
            /\ stream.surfaced = <<>>
            /\ Len(after.surfaced) = 1
            /\ \A i \in 1..Len(after.surfaced[1]) : after.surfaced[1][i] # ""
     /\ lastOp' = "generate:failed" =>
          \E stream \in BagToSet(streams) :
            /\ streams' = Remove(streams, stream)
            /\ stream.phase = "stream"
     /\ lastOp' = "generate:ok" =>
          \E stream \in BagToSet(streams) :
            /\ streams' = Remove(streams, stream)
            /\ stream.surfaced # <<>> =>
                 /\ state'.currentSite # NoSite
                 /\ state'.currentSite[1].sources = stream.surfaced[1]]_vars

\* ------------------------------------------ properties of History, continued
\* C25: when the result of a successful edit is applied, History becomes the
\* entries up to and including the one under the cursor at that moment,
\* followed by the new code, whatever undo, redo, restore or manual update
\* happened while the request was in flight.
EditKeepsCurrentEntry ==
  [][lastOp' = "edit:ok" =>
       /\ Len(codeHistory') = historyIndex + 2
       /\ SubSeq(codeHistory', 1, historyIndex + 1) =
            SubSeq(codeHistory, 1, historyIndex + 1)
       /\ codeHistory'[Len(codeHistory')] = displayed']_vars

\* ------------------------------------------------ properties of the flags
\* C26: the flags are set exactly while their operations are in flight:
\* isLoading while a generation has not settled, isEditing while an edit
\* request is outstanding, isFixing while an auto-fix request is.
FlagsMatchCalls ==
  /\ state.isLoading <=>
       (streams # EmptyBag \/ callsOf({"estimateGenerationTime"}) # {})
  /\ isEditing <=> edits # EmptyBag
  /\ isFixing <=> callsOf({"autoFixCode"}) # {}

\* ----------------------------------------------- properties of the Button
\* C27: a Button rendered with isLoading true has its disabled attribute
\* set, whatever disabled prop it is given; the edit Button, given isLoading
\* and a disabled prop, starts no second edit while an edit is in flight.
LoadingButtonIsDisabled ==
  [][/\ \A editPrompt \in Instructions :
          ((isEditing \/ state.isLoading) /\ ~isGenerating)
            => editButtonDisabled(editPrompt)
     /\ lastOp' = "edit" => ~isEditing]_vars

\* ------------------------------------------ properties of the empty response
\* C28: a successful edit or auto-fix whose response carries no text leaves a
\* non-empty artifact with the code it had before.
EmptyResponseKeepsCode ==
  [][\A error \in AppErrors :
       /\ \A call \in BagToSet(edits) :
            (editSettled(call, "ok", <<>>, error) /\ hasSite /\ displayed # <<>>)
              => (state'.currentSite # NoSite /\ displayed' = displayed)
       /\ \A call \in BagToSet(pending) :
            (fixSettled(call, "ok", <<>>, error) /\ hasSite /\ displayed # <<>>)
              => (state'.currentSite # NoSite /\ displayed' = displayed)]_vars

\* --------------------------------------------- properties of undo and redo
\* C29: undo and redo leave codeHistory as it is and are inverse to each
\* other: after an undo from a cursor above 0, the redo that follows puts
\* back the cursor and the displayed code, and so does the undo that follows
\* a redo from a cursor below the tail.
UndoRedoInverse ==
  [][/\ lastOp' = "undo" =>
          /\ codeHistory' = codeHistory
          /\ historyIndex' = historyIndex - 1
          /\ historyIndex' < Len(codeHistory') - 1
          /\ At(codeHistory', historyIndex' + 1) = displayed
     /\ lastOp' = "redo" =>
          /\ codeHistory' = codeHistory
          /\ historyIndex' = historyIndex + 1
          /\ historyIndex' > 0
          /\ At(codeHistory', historyIndex' - 1) = displayed]_vars

\* ------------------------------- properties of the suggestions, continued
\* C30: isFetchingSuggestions is true exactly while a suggestion request is
\* outstanding, and when the last outstanding request settles with nothing
\* else in flight, it is the request that was issued for the current code.
SuggestionsNotStale ==
  [][/\ isFetchingSuggestions <=> callsOf({"getCodingSuggestions"}) # {}
     /\ (lastOp' = "suggestions" /\ streams' = EmptyBag /\ edits' = EmptyBag
           /\ pending' = EmptyBag) =>
          \E call \in BagToSet(pending) :
            /\ pending' = Remove(pending, call)
            /\ state'.currentSite # NoSite
            /\ call.code = displayed']_vars

====
